---- MODULE Spec2Model ----
(***************************************************************************)
(* Model of pansharpen/worker.py: the pre-flight checks and tile loop of   *)
(* pansharpen(), and the per-tile kernel pansharpen_worker().              *)
(*                                                                         *)
(* Spec        one run of pansharpen(): pre-flight, then the tiles of the  *)
(*             panchromatic raster computed and written by up to `jobs`    *)
(*             workers in any order.                                       *)
(* SpecWorker  one call of pansharpen_worker() on one tile, statement by   *)
(*             statement.                                                  *)
(*                                                                         *)
(* Rasters are small grids.  The panchromatic raster holds one value at    *)
(* every pixel; the colour raster holds one base colour at every pixel     *)
(* except at most one "hole" pixel, where one band is the nodata value 0.  *)
(* Both rasters cover the same ground extent.                              *)
(***************************************************************************)
EXTENDS Integers, Sequences, FiniteSets, TLC

VARIABLES
    pan_src,        \* open_files[0]: the panchromatic raster
    r_src,          \* open_files[1]: the colour raster
    g_args,         \* weight (in tenths) and jobs
    pc,             \* position of pansharpen(): start, running, done, error
    err,            \* which error ended the run
    profile,        \* the destination profile built by pansharpen()
    windows,        \* calc_windows(pan_src, customwindow)
    status,         \* per window: pending, computed, written, failed
    results,        \* tiles returned by the worker and not yet written
    dst,            \* the destination raster, per window
    wpc,            \* number of statements of the worker already executed
    pan_window,     \* the window the worker was called with
    pan,            \* the worker's local pan
    rgb,            \* the worker's local rgb: [grid, px]
    pan_sharpened,  \* the worker's local pan_sharpened
    trace           \* the statements of the worker executed so far

vars == <<pan_src, r_src, g_args, pc, err, profile, windows, status, results,
          dst, wpc, pan_window, pan, rgb, pan_sharpened, trace>>

runVars == <<pc, err, profile, windows, status, results, dst>>
workerVars == <<wpc, pan_window, pan, rgb, pan_sharpened, trace>>
inputVars == <<pan_src, r_src, g_args>>

----------------------------------------------------------------------------
(* Bounds of the model *)

MaxPanDim == 3
MaxRgbDim == 2
MaxJobs == 2
CustomWindow == 2

(* Program constants *)

padding == 2
COUNT == 4
SHIFT == 16

Min(a, b) == IF a < b THEN a ELSE b

\* np.iinfo(dtype).max
iinfo_max(dtype) ==
    CASE dtype = "uint8" -> 255
      [] dtype = "uint16" -> 65535

----------------------------------------------------------------------------
(* Inputs *)

PanDtypes == {"uint8", "uint16"}

PanSamples(dtype) ==
    IF dtype = "uint8" THEN {0, 200, 255} ELSE {0, 200, 256, 512, 65535}

ColorBases == {<<100, 100, 100, 100>>, <<50, 100, 150, 100>>}

Weights == {2, 10}

Crs == {"EPSG:32610", "EPSG:32611"}

\* The colour of raster r at raster pixel (row, col); a boundless read fills
\* what lies outside the raster with 0.
ColorAt(r, row, col) ==
    IF row < 0 \/ row >= r.height \/ col < 0 \/ col >= r.width
    THEN [b \in 1..r.count |-> 0]
    ELSE [b \in 1..r.count |->
            IF r.hole = <<row, col>> /\ r.hb = b THEN 0 ELSE r.base[b]]

----------------------------------------------------------------------------
(* utils.calc_windows: the disjoint windows of size customwindow covering   *)
(* the panchromatic extent, with remainder windows at the right and bottom  *)

calc_windows(src, customwindow) ==
    { [col_off |-> c, row_off |-> r,
       width |-> Min(customwindow, src.width - c),
       height |-> Min(customwindow, src.height - r)] :
        c \in {x \in 0..(src.width - 1) : x % customwindow = 0},
        r \in {y \in 0..(src.height - 1) : y % customwindow = 0} }

Pixels(w) == (0..(w.height - 1)) \X (0..(w.width - 1))

----------------------------------------------------------------------------
(* pansharpen_worker, statement by statement *)

\* open_files[1].window(*open_files[0].window_bounds(pan_window)): the colour
\* window that covers the ground bounds of the pan window.
rgb_base_window(p, r, w) ==
    LET c0 == (w.col_off * r.width) \div p.width
        c1 == ((w.col_off + w.width) * r.width + p.width - 1) \div p.width
        r0 == (w.row_off * r.height) \div p.height
        r1 == ((w.row_off + w.height) * r.height + p.height - 1) \div p.height
    IN  [col_off |-> c0, row_off |-> r0, width |-> c1 - c0, height |-> r1 - r0]

\* utils.pad_window
pad_window(wnd, pad) ==
    [col_off |-> wnd.col_off - pad, row_off |-> wnd.row_off - pad,
     width |-> wnd.width + 2 * pad, height |-> wnd.height + 2 * pad]

\* src.read(window=rgb_window, boundless=True)
read_rgb(r, wnd) ==
    [grid |-> wnd,
     px |-> [q \in Pixels(wnd) |->
                ColorAt(r, wnd.row_off + q[1], wnd.col_off + q[2])]]

\* open_files[0].read(1, window=pan_window)
read_pan(p, w) == [q \in Pixels(w) |-> p.val]

\* np.minimum(rgb[0], np.minimum(rgb[1], rgb[2])) * 2 ** 16, at one pixel
\* (variant for sensitivity analysis: the third band left out of the minimum)
color_mask_2bands(px) == Min(px[1], px[2]) * (2 ^ SHIFT)
color_mask(px) == Min(px[1], Min(px[2], px[3])) * (2 ^ SHIFT)

\* np.array([np.minimum(band, color_mask) for band in rgb])
apply_mask(buf) ==
    [grid |-> buf.grid,
     px |-> [q \in DOMAIN buf.px |->
                [b \in DOMAIN buf.px[q] |-> Min(buf.px[q][b], color_mask(buf.px[q]))]]]

\* utils.upsample: the colour buffer resampled (nearest neighbour) onto the
\* grid of the pan window; p and r give the two rasters' pixel sizes.
upsample(buf, w, p, r) ==
    [grid |-> w,
     px |-> [q \in Pixels(w) |->
               LET row == ((2 * (w.row_off + q[1]) + 1) * r.height) \div (2 * p.height)
                   col == ((2 * (w.col_off + q[2]) + 1) * r.width) \div (2 * p.width)
                   s == <<row - buf.grid.row_off, col - buf.grid.col_off>>
               IN  IF s \in DOMAIN buf.px THEN buf.px[s]
                   ELSE [b \in 1..r.count |-> 0]]]

\* methods.Brovey at one pixel: each band times pan / brightness, brightness
\* being the weighted mean of the bands (weight in tenths, on the last of
\* the three bands); 0 where the brightness is 0; clipped to the pan dtype.
Brovey_px(px, panv, weight, pan_dtype) ==
    LET den == 10 * px[1] + 10 * px[2] + weight * px[3]
    IN  [b \in DOMAIN px |->
            IF den = 0 THEN 0
            ELSE Min(iinfo_max(pan_dtype), (px[b] * panv * (20 + weight)) \div den)]

Brovey(buf, panbuf, weight, pan_dtype) ==
    [q \in DOMAIN buf.px |-> Brovey_px(buf.px[q], panbuf[q], weight, pan_dtype)]

\* float(np.iinfo(np.uint16).max) / float(np.iinfo(np.uint8).max)
\* (variant: 65536 / 256)
scale_pow2 == 2 ^ 8
scale == iinfo_max("uint16") \div iinfo_max("uint8")

\* .astype(np.uint8) of a non-negative value
astype_uint8(x) == x % 256

\* utils.simple_mask(data, ndv) at one pixel: 0 where every band equals the
\* nodata colour, else the maximum of the 8-bit type
simple_mask(data, ndv) ==
    IF \A b \in DOMAIN data : data[b] = ndv[b] THEN 0 ELSE iinfo_max("uint8")

\* np.concatenate([(pan_sharpened / scale).astype(np.uint8), simple_mask(...)])
encode_px(sharp) ==
    LET n == Len(sharp)
    IN  [b \in 1..(n + 1) |->
            IF b <= n THEN astype_uint8(sharp[b] \div scale)
            ELSE simple_mask([k \in 1..n |-> astype_uint8(sharp[k])], <<0, 0, 0>>)]

encode(sharp) == [q \in DOMAIN sharp |-> encode_px(sharp[q])]

\* The worker raises: band 1 of a raster without bands cannot be read;
\* rgb[2] does not exist for fewer than three colour bands; the mask
\* compares the bands with the three-band colour (0, 0, 0).
worker_raises(open_files) ==
    \/ open_files[1].count < 1
    \/ open_files[2].count # 3

\* (variant: a worker whose pan read depends on how many tiles are written)
pansharpen_worker_shared(open_files, w, args) ==
    LET p == open_files[1]
        r == open_files[2]
        n == Cardinality({t \in windows : status[t] = "written"})
        v == IF n % 2 = 1 THEN [p EXCEPT !.val = 0] ELSE p
        buf == read_rgb(r, pad_window(rgb_base_window(p, r, w), padding))
        up == upsample(apply_mask(buf), w, p, r)
    IN  encode(Brovey(up, read_pan(v, w), args.weight, p.dtype))

\* The whole worker, for a call that does not raise.
pansharpen_worker(open_files, w, args) ==
    LET p == open_files[1]
        r == open_files[2]
        buf == read_rgb(r, pad_window(rgb_base_window(p, r, w), padding))
        up == upsample(apply_mask(buf), w, p, r)
    IN  encode(Brovey(up, read_pan(p, w), args.weight, p.dtype))

----------------------------------------------------------------------------
(* pansharpen: pre-flight *)

count_ok(p) == ~(p.count > 1)

\* (variant: equal sizes let through)
size_ok_strict(p, r) == ~(p.width < r.width \/ p.height < r.height)
size_ok(p, r) == ~(p.width <= r.width \/ p.height <= r.height)

\* utils.check_crs: the two coordinate reference systems must be the same
check_crs(r, p) == r.crs = p.crs

\* profile.update(..., dtype=np.uint8, count=4, ...)
updated_profile(p) ==
    [width |-> p.width, height |-> p.height, crs |-> p.crs,
     dtype |-> "uint8", count |-> COUNT]

NoProfile == [width |-> 0, height |-> 0, crs |-> "none", dtype |-> "none", count |-> 0]
NoWindow == [col_off |-> 0, row_off |-> 0, width |-> 0, height |-> 0]
NoBuf == [grid |-> NoWindow, px |-> <<>>]

PanRasters(counts) ==
    { [count |-> c, width |-> w, height |-> h, crs |-> "EPSG:32610",
       dtype |-> d, val |-> v] :
        c \in counts, w \in 2..MaxPanDim, h \in 2..MaxPanDim,
        d \in PanDtypes, v \in {0, 200, 255, 256, 512, 65535} }

NoHole == <<-1, -1>>

Holes(w, h) == {NoHole} \cup ((0..(h - 1)) \X (0..(w - 1)))

Init ==
    /\ pan_src \in { p \in PanRasters({0, 1, 2}) :
                        p.dtype = "uint16" /\ p.val \in {200, 512} }
    /\ r_src \in { [count |-> n, width |-> w, height |-> h, crs |-> c,
                     base |-> <<100, 100, 100, 100>>, hole |-> ho, hb |-> 1] :
                     n \in 2..4, w \in 1..MaxRgbDim, h \in 1..MaxRgbDim,
                     c \in Crs, ho \in {NoHole, <<0, 0>>} }
    /\ g_args \in { [weight |-> w, jobs |-> j] : w \in Weights, j \in 1..MaxJobs }
    /\ pc = "start"
    /\ err = "none"
    /\ profile = NoProfile
    /\ windows = {}
    /\ status = <<>>
    /\ results = <<>>
    /\ dst = <<>>
    /\ wpc = 0
    /\ pan_window = NoWindow
    /\ pan = <<>>
    /\ rgb = NoBuf
    /\ pan_sharpened = <<>>
    /\ trace = <<>>

\* Lines 75-101: open the rasters, compute the windows, check the band
\* count, build the profile, check the sizes and the reference systems.
Preflight ==
    /\ pc = "start"
    /\ windows' = calc_windows(pan_src, CustomWindow)
    /\ IF ~count_ok(pan_src)
       THEN /\ pc' = "error" /\ err' = "count"
            /\ UNCHANGED <<profile, status, dst>>
       ELSE /\ profile' = updated_profile(pan_src)
            /\ IF ~size_ok(pan_src, r_src)
               THEN /\ pc' = "error" /\ err' = "size"
                    /\ UNCHANGED <<status, dst>>
               ELSE IF ~check_crs(r_src, pan_src)
               THEN /\ pc' = "error" /\ err' = "crs"
                    /\ UNCHANGED <<status, dst>>
               ELSE /\ pc' = "running" /\ err' = "none"
                    /\ status' = [t \in windows' |-> "pending"]
                    /\ dst' = [t \in windows' |-> <<>>]
    /\ UNCHANGED <<results, inputVars, workerVars>>

InFlight == {t \in windows : status[t] = "computed"}

\* rm.run(jobs): a worker of the pool is called on a pending window; what it
\* raises ends the run.
Worker(t) ==
    /\ pc = "running"
    /\ status[t] = "pending"
    /\ Cardinality(InFlight) < g_args.jobs
    /\ IF worker_raises(<<pan_src, r_src>>)
       THEN /\ status' = [status EXCEPT ![t] = "failed"]
            /\ pc' = "error" /\ err' = "worker"
            /\ UNCHANGED results
       ELSE /\ status' = [status EXCEPT ![t] = "computed"]
            /\ results' = [u \in (DOMAIN results) \cup {t} |->
                              IF u = t THEN pansharpen_worker(<<pan_src, r_src>>, t, g_args)
                              ELSE results[u]]
            /\ UNCHANGED <<pc, err>>
    /\ UNCHANGED <<profile, windows, dst, inputVars, workerVars>>

\* rm.run(jobs): the tile a worker returned is written at its window.
\* (variant: every tile written at the first window)
write_first(d, t, data) ==
    [d EXCEPT ![CHOOSE u \in DOMAIN d : u.col_off = 0 /\ u.row_off = 0] = data]
write(d, t, data) == [d EXCEPT ![t] = data]

Write(t) ==
    /\ pc = "running"
    /\ status[t] = "computed"
    /\ dst' = write(dst, t, results[t])
    /\ status' = [status EXCEPT ![t] = "written"]
    /\ results' = [u \in (DOMAIN results) \ {t} |-> results[u]]
    /\ UNCHANGED <<pc, err, profile, windows, inputVars, workerVars>>

\* rm.run(jobs) returns once every window has been written.
\* (variant: returning before the last tiles are written)
run_complete_computed(st) == \A t \in DOMAIN st : st[t] \in {"computed", "written"}
run_complete(st) == \A t \in DOMAIN st : st[t] = "written"

Finish ==
    /\ pc = "running"
    /\ run_complete(status)
    /\ pc' = "done"
    /\ UNCHANGED <<err, profile, windows, status, results, dst, inputVars, workerVars>>

Next ==
    \/ Preflight
    \/ \E t \in windows : Worker(t)
    \/ \E t \in windows : Write(t)
    \/ Finish

Spec == Init /\ [][Next]_vars

----------------------------------------------------------------------------
(* One call of pansharpen_worker, statement by statement, on rasters that  *)
(* pre-flight lets through.                                                *)

WInit ==
    /\ pan_src \in { p \in PanRasters({0, 1}) : p.val \in PanSamples(p.dtype) }
    /\ r_src \in { [count |-> n, width |-> w, height |-> h, crs |-> "EPSG:32610",
                     base |-> ba, hole |-> ho, hb |-> b] :
                     w \in 1..MaxRgbDim, h \in 1..MaxRgbDim, ba \in ColorBases,
                     ho \in Holes(MaxRgbDim, MaxRgbDim), b \in 1..3, n \in 2..4 }
    /\ r_src.hole \in Holes(r_src.width, r_src.height)
    /\ r_src.hole = NoHole => r_src.hb = 1
    /\ r_src.hb <= r_src.count
    \* a call that raises never looks at the samples: one content is enough
    /\ worker_raises(<<pan_src, r_src>>) =>
          /\ pan_src.val = 200 /\ pan_src.dtype = "uint16"
          /\ r_src.hole = NoHole /\ r_src.base = <<100, 100, 100, 100>>
    /\ count_ok(pan_src) /\ size_ok(pan_src, r_src) /\ check_crs(r_src, pan_src)
    /\ g_args \in { [weight |-> w, jobs |-> 1] : w \in Weights }
    /\ pc = "worker"
    /\ err = "none"
    /\ profile = updated_profile(pan_src)
    /\ windows = calc_windows(pan_src, CustomWindow)
    /\ status = <<>>
    /\ results = <<>>
    /\ dst = <<>>
    /\ wpc = 0
    /\ pan_window \in calc_windows(pan_src, CustomWindow)
    /\ pan = <<>>
    /\ rgb = NoBuf
    /\ pan_sharpened = <<>>
    /\ trace = <<>>

\* The order of the statements of pansharpen_worker (lines 19-64).
\* (variant: resampling before the clamp)
worker_order_resample_first == <<"read", "upsample", "mask", "brovey", "encode">>
worker_order == <<"read", "mask", "upsample", "brovey", "encode">>

At(s) == wpc < Len(worker_order) /\ worker_order[wpc + 1] = s

Step(s) ==
    /\ At(s)
    /\ wpc' = wpc + 1
    /\ trace' = Append(trace, s)
    /\ UNCHANGED <<pan_window, inputVars, runVars>>

\* An exception leaves the worker: nothing is returned.
Raise(s) ==
    /\ At(s)
    /\ wpc' = Len(worker_order)
    /\ trace' = Append(trace, "raise")
    /\ UNCHANGED <<pan_window, inputVars, runVars, pan, rgb, pan_sharpened>>

\* Lines 19-34: read the pan window, find the padded colour window, read it.
\* Band 1 of a raster without bands cannot be read.
WRead ==
    IF pan_src.count < 1 THEN Raise("read")
    ELSE /\ Step("read")
         /\ pan' = read_pan(pan_src, pan_window)
         /\ rgb' = read_rgb(r_src,
                        pad_window(rgb_base_window(pan_src, r_src, pan_window), padding))
         /\ UNCHANGED pan_sharpened

\* Lines 36-43: the nodata minimum and clamp; rgb[2] must exist.
WMask ==
    IF r_src.count < 3 THEN Raise("mask")
    ELSE /\ Step("mask")
         /\ rgb' = apply_mask(rgb)
         /\ UNCHANGED <<pan, pan_sharpened>>

\* Lines 48-49: resample onto the grid of the pan window.
WUpsample ==
    /\ Step("upsample")
    /\ rgb' = upsample(rgb, pan_window, pan_src, r_src)
    /\ UNCHANGED <<pan, pan_sharpened>>

\* Line 52: the fusion.
WBrovey ==
    /\ Step("brovey")
    /\ pan_sharpened' = Brovey(rgb, pan, g_args.weight, pan_src.dtype)
    /\ UNCHANGED <<pan, rgb>>

\* Lines 54-64: rescale to 8 bits, append the mask band, return; the mask
\* compares the bands with the three-band colour (0, 0, 0).
WEncode ==
    IF r_src.count # 3 THEN Raise("encode")
    ELSE /\ Step("encode")
         /\ pan_sharpened' = encode(pan_sharpened)
         /\ UNCHANGED <<pan, rgb>>

WNext == WRead \/ WMask \/ WUpsample \/ WBrovey \/ WEncode

SpecWorker == WInit /\ [][WNext]_vars

----------------------------------------------------------------------------
(* Properties of a run (Spec) *)

Invoked == {t \in DOMAIN status : status[t] # "pending"}
Written == {t \in DOMAIN status : status[t] = "written"}

BadConfig ==
    \/ pan_src.count > 1
    \/ pan_src.width <= r_src.width
    \/ pan_src.height <= r_src.height
    \/ pan_src.crs # r_src.crs

\* C1: when the panchromatic raster has more than one band, or its width or
\* height does not strictly exceed the colour raster's, or the reference
\* systems differ, the run ends in a pre-flight error, and no worker has been
\* called and no tile written.
C1_PreflightFailsFirst ==
    BadConfig =>
        /\ pc \in {"start", "error"}
        /\ pc = "error" => err \in {"count", "size", "crs"}
        /\ Invoked = {}
        /\ Written = {}

C1_Witness ==
    /\ pc = "error" /\ err = "size"
    /\ pan_src.count = 1 /\ pan_src.crs = r_src.crs
    /\ pan_src.width = r_src.width /\ pan_src.height > r_src.height

\* C2: for every band count of the panchromatic raster other than 1, zero
\* included, the run fails before any processing: no worker is called.
C2_ExactlyOneBand ==
    pan_src.count # 1 => (pc \in {"start", "error"} /\ Invoked = {})

\* C6: the worker returns N+1 bands of the pan window's shape for every
\* colour band count N, and the destination profile declares N+1 bands.
C6_BandsAndShape ==
    pc \in {"running", "done"} =>
        /\ profile.count = r_src.count + 1
        /\ \A t \in DOMAIN results :
              /\ DOMAIN results[t] = Pixels(t)
              /\ \A q \in Pixels(t) : Len(results[t][q]) = r_src.count + 1

\* C7: whatever the number of workers and the order in which tiles are
\* computed and written, every written tile of the destination is the
\* worker's result for that window on the input rasters and the weight;
\* the windows are disjoint and, once the run is done, cover the pan extent.
GlobalPixels(t) ==
    {<<t.row_off + q[1], t.col_off + q[2]>> : q \in Pixels(t)}

C7_Deterministic ==
    /\ \A t \in Written : dst[t] = pansharpen_worker(<<pan_src, r_src>>, t, g_args)
    /\ \A t \in DOMAIN status : \A u \in DOMAIN status :
          t # u => GlobalPixels(t) \cap GlobalPixels(u) = {}
    /\ pc = "done" =>
          UNION {GlobalPixels(t) : t \in Written}
              = (0..(pan_src.height - 1)) \X (0..(pan_src.width - 1))

C7_Witness ==
    /\ pc = "done" /\ g_args.jobs = 2 /\ Cardinality(windows) = 4
    /\ Written = windows
    /\ r_src.hole # NoHole

\* C8: a tile is written only once the worker has returned it, and the run
\* reports completion only when every window has been written.
C8_WriteAfterWorker ==
    [][ /\ \A t \in DOMAIN status' :
              (status'[t] = "written" /\ status[t] # "written") =>
                  (status[t] = "computed" /\ dst'[t] = results[t])
        /\ pc' = "done" =>
              /\ windows' = calc_windows(pan_src, CustomWindow)
              /\ DOMAIN status' = windows'
              /\ \A t \in windows' : status'[t] = "written"
        /\ pc = "error" => pc' = "error"
      ]_vars

C8_Witness ==
    /\ pc = "done" /\ Cardinality(windows) = 4
    /\ \A t \in windows : status[t] = "written"

----------------------------------------------------------------------------
(* Properties of one call of the worker (SpecWorker) *)

Returned == Len(trace) = 5 /\ trace[5] = "encode"

\* The colour raster's pixel under pan pixel q of the window
InColor(q) ==
    ColorAt(r_src,
            ((2 * (pan_window.row_off + q[1]) + 1) * r_src.height) \div (2 * pan_src.height),
            ((2 * (pan_window.col_off + q[2]) + 1) * r_src.width) \div (2 * pan_src.width))

HasNodata(q) == \E b \in 1..3 : InColor(q)[b] = 0

\* The fused value the brightness-ratio formula gives band b at pixel q
Fused(q, b) ==
    LET c == InColor(q)
        w == g_args.weight
    IN  Min(iinfo_max(pan_src.dtype),
            (c[b] * pan_src.val * (20 + w)) \div (10 * c[1] + 10 * c[2] + w * c[3]))

\* C3: where any input colour band is 0, the mask band of the returned tile
\* is 0 (invalid) and every written colour band is 0.
C3_NodataZeroed ==
    Returned =>
        \A q \in Pixels(pan_window) :
            HasNodata(q) =>
                /\ pan_sharpened[q][4] = 0
                /\ \A b \in 1..3 : pan_sharpened[q][b] = 0

C3_Witness ==
    /\ Returned
    /\ pan_src.val = 65535
    /\ r_src.hb = 3
    /\ \E q \in Pixels(pan_window) : HasNodata(q) /\ InColor(q)[1] # 0
    /\ \E q \in Pixels(pan_window) : ~HasNodata(q) /\ pan_sharpened[q][4] = 255

\* C4: the mask band is valid exactly where no input colour band is 0.
C4_MaskIffNoNodata ==
    Returned =>
        \A q \in Pixels(pan_window) :
            (pan_sharpened[q][4] = 255) <=> ~HasNodata(q)

C9_ClampAfterResample ==
    \A i \in DOMAIN trace :
        trace[i] = "mask" => \E j \in 1..(i - 1) : trace[j] = "upsample"

\* C9 as amended: the statements run in the order read, clamp, resample,
\* fuse, encode; the clamp is applied to the padded colour buffer, and the
\* buffer is on the pan window's grid only after the resampling.
C9_ClampBeforeResample ==
    /\ \A i \in DOMAIN trace :
          trace[i] \in {"raise", <<"read", "mask", "upsample", "brovey", "encode">>[i]}
    /\ (Len(trace) = 2 /\ trace[2] = "mask") =>
          /\ rgb.grid = pad_window(rgb_base_window(pan_src, r_src, pan_window), 2)
          /\ \A q \in DOMAIN rgb.px :
                (\E b \in 1..3 : ColorAt(r_src, rgb.grid.row_off + q[1],
                                         rgb.grid.col_off + q[2])[b] = 0)
                    => \A b \in 1..3 : rgb.px[q][b] = 0
    /\ (Len(trace) >= 3 /\ trace[3] = "upsample") => rgb.grid = pan_window

C9_Witness ==
    /\ Returned
    /\ trace = <<"read", "mask", "upsample", "brovey", "encode">>
    /\ \E q \in Pixels(pan_window) : HasNodata(q)

\* C10: a pixel of the returned tile with a nonzero written colour sample is
\* never marked invalid.
C10_AlphaAgrees ==
    Returned =>
        \A q \in Pixels(pan_window) :
            (\E b \in 1..3 : pan_sharpened[q][b] # 0) => pan_sharpened[q][4] = 255

====
